---- MODULE Spec2Model ----
(***************************************************************************)
(* Model of excel_cleaner.py: the column-aware text normalizers and the    *)
(* run_data_processing pipeline (read, parse, align, deduplicate, audit,   *)
(* export).                                                                *)
(*                                                                         *)
(* A Python str is modelled as a sequence of Unicode code points, so that  *)
(* str.upper / str.lower / str.title / str.capitalize keep the behaviour   *)
(* of CPython's full case mapping: one character may map to several.       *)
(* The modelled part of Unicode is                                         *)
(*   9..13, 28..31, 32        whitespace                                   *)
(*   33..126                  ASCII (letters A-Z, a-z; digits 0-9)         *)
(*   223  (LATIN SMALL SHARP S)       upper "SS", title "Ss"               *)
(*   496  (LATIN SMALL J WITH CARON)  upper and title "J" + 780            *)
(*   780  (COMBINING CARON)           uncased                              *)
(*   1024..1119               Cyrillic capital and small letters           *)
(***************************************************************************)
EXTENDS Integers, Sequences, FiniteSets, TLC

----------------------------------------------------------------------------
(* Bounds of the model *)

\* longest value handed to normalize_text in the normalizer specification
MaxLen == 4
\* longest value in the dispatch specification
MaxDispatchLen == 2
\* largest number of raw lines of the input file
MaxLines == 4

----------------------------------------------------------------------------
(* Characters *)

AsciiUpper == 65..90
AsciiLower == 97..122
CyrUpperA == 1040..1071     \* A..YA, small letter is +32
CyrLowerA == 1072..1103
CyrUpperExt == 1024..1039   \* IE WITH GRAVE..DZHE, small letter is +80
CyrLowerExt == 1104..1119
SharpS == 223
JCaron == 496
CombiningCaron == 780

\* str.isspace for one character
IsSpace(c) == c \in (9..13) \cup (28..32)

\* str.isdigit for one character
IsDigit(c) == c \in 48..57

\* _PyUnicode_IsCased
IsCased(c) ==
    c \in AsciiUpper \cup AsciiLower \cup CyrUpperA \cup CyrLowerA
          \cup CyrUpperExt \cup CyrLowerExt \cup {SharpS, JCaron}

\* _PyUnicode_ToUpperFull
Upper(c) ==
    IF c \in AsciiLower \cup CyrLowerA THEN <<c - 32>>
    ELSE IF c \in CyrLowerExt THEN <<c - 80>>
    ELSE IF c = SharpS THEN <<83, 83>>
    ELSE IF c = JCaron THEN <<74, CombiningCaron>>
    ELSE <<c>>

\* _PyUnicode_ToLowerFull
Lower(c) ==
    IF c \in AsciiUpper \cup CyrUpperA THEN <<c + 32>>
    ELSE IF c \in CyrUpperExt THEN <<c + 80>>
    ELSE <<c>>

\* _PyUnicode_ToTitleFull
Title(c) ==
    IF c = SharpS THEN <<83, 115>> ELSE Upper(c)

\* a character whose upper- or title-case mapping is longer than one character
Expands(c) == Len(Upper(c)) > 1 \/ Len(Title(c)) > 1

----------------------------------------------------------------------------
(* str methods *)

RECURSIVE str_lower(_)
str_lower(s) == IF s = <<>> THEN <<>> ELSE Lower(Head(s)) \o str_lower(Tail(s))

RECURSIVE lstrip(_)
lstrip(s) == IF s # <<>> /\ IsSpace(Head(s)) THEN lstrip(Tail(s)) ELSE s

RECURSIVE rstrip(_)
rstrip(s) ==
    IF s # <<>> /\ IsSpace(s[Len(s)]) THEN rstrip(SubSeq(s, 1, Len(s) - 1)) ELSE s

\* str.strip()
str_strip(s) == rstrip(lstrip(s))

\* str.split(): the maximal runs of non-whitespace characters
RECURSIVE split_from(_, _)
split_from(s, cur) ==
    IF s = <<>> THEN (IF cur = <<>> THEN <<>> ELSE <<cur>>)
    ELSE IF IsSpace(Head(s))
         THEN (IF cur = <<>> THEN <<>> ELSE <<cur>>) \o split_from(Tail(s), <<>>)
         ELSE split_from(Tail(s), Append(cur, Head(s)))

str_split(s) == split_from(s, <<>>)

\* sep.join(words)
RECURSIVE str_join(_, _)
str_join(sep, words) ==
    IF words = <<>> THEN <<>>
    ELSE IF Len(words) = 1 THEN words[1]
    ELSE words[1] \o sep \o str_join(sep, Tail(words))

\* a title-casing loop that starts a word only after whitespace or a hyphen
RECURSIVE title_from_delims(_, _)
title_from_delims(s, at_start) ==
    IF s = <<>> THEN <<>>
    ELSE (IF at_start THEN Title(Head(s)) ELSE Lower(Head(s)))
         \o title_from_delims(Tail(s), IsSpace(Head(s)) \/ Head(s) = 45)

\* the title-casing loop of str.title(): a character that follows a cased
\* character is lowercased, any other character is titlecased
RECURSIVE title_from(_, _)
title_from(s, previous_is_cased) ==
    IF s = <<>> THEN <<>>
    ELSE (IF previous_is_cased THEN Lower(Head(s)) ELSE Title(Head(s)))
         \o title_from(Tail(s), IsCased(Head(s)))

str_title_delims(s) == title_from_delims(s, TRUE)

\* str.title()
str_title(s) == title_from(s, FALSE)

\* str.capitalize(): first character titlecased, the rest lowercased
str_capitalize(s) ==
    IF s = <<>> THEN <<>> ELSE Title(Head(s)) \o str_lower(Tail(s))

\* str.isdigit(): non-empty and made of digits only
str_isdigit(s) == s # <<>> /\ \A i \in 1..Len(s) : IsDigit(s[i])

\* sub in s
Contains(s, sub) ==
    \E i \in 0..(Len(s) - Len(sub)) : SubSeq(s, i + 1, i + Len(sub)) = sub

\* re.split(r"[;,]", line)
RECURSIVE re_split_from(_, _)
re_split_from(s, cur) ==
    IF s = <<>> THEN <<cur>>
    ELSE IF Head(s) \in {59, 44}
         THEN <<cur>> \o re_split_from(Tail(s), <<>>)
         ELSE re_split_from(Tail(s), Append(cur, Head(s)))

re_split(line) == re_split_from(line, <<>>)

\* str(n) for a natural number
RECURSIVE str_int(_)
str_int(n) == IF n < 10 THEN <<48 + n>> ELSE str_int(n \div 10) \o <<48 + (n % 10)>>

----------------------------------------------------------------------------
(* Normalizers *)

\* 'сотрудник'
KW_sotrudnik == <<1089, 1086, 1090, 1088, 1091, 1076, 1085, 1080, 1082>>
\* 'город'
KW_gorod == <<1075, 1086, 1088, 1086, 1076>>
\* 'место'
KW_mesto == <<1084, 1077, 1089, 1090, 1086>>

\* one word of normalize_fio
fio_word(word) ==
    IF Len(word) = 2 /\ word[2] = 46
    THEN Upper(word[1]) \o <<46>>
    ELSE str_capitalize(word)

RECURSIVE fio_words(_)
fio_words(words) ==
    IF words = <<>> THEN <<>> ELSE <<fio_word(Head(words))>> \o fio_words(Tail(words))

normalize_fio(value) ==
    IF value = <<>> THEN value
    ELSE str_join(<<32>>, fio_words(str_split(value)))

normalize_location(value) ==
    IF value = <<>> THEN value ELSE str_title(value)

normalize_sentence_strip_last(value) ==
    IF str_strip(value) = <<>> THEN <<>>
    ELSE str_strip(Upper(value[1]) \o Tail(value))

normalize_sentence(value) ==
    LET v == str_strip(value)
    IN  IF v = <<>> THEN v ELSE Upper(v[1]) \o Tail(v)

normalize_text_location_first(value, column_name) ==
    IF value = <<>> THEN value
    ELSE IF Contains(str_lower(column_name), KW_gorod)
            \/ Contains(str_lower(column_name), KW_mesto)
         THEN normalize_location(value)
    ELSE IF Contains(str_lower(column_name), KW_sotrudnik)
         THEN normalize_fio(value)
    ELSE normalize_sentence(value)

normalize_text(value, column_name) ==
    IF value = <<>> THEN value
    ELSE IF Contains(str_lower(column_name), KW_sotrudnik)
         THEN normalize_fio(value)
    ELSE IF Contains(str_lower(column_name), KW_gorod)
            \/ Contains(str_lower(column_name), KW_mesto)
         THEN normalize_location(value)
    ELSE normalize_sentence(value)

----------------------------------------------------------------------------
(* Pipeline helpers *)

\* 'Additional_Field_'
AdditionalFieldPrefix == <<65, 100, 100, 105, 116, 105, 111, 110, 97, 108, 95, 70, 105, 101, 108, 100, 95>>
\* 'Incomplete Entry'
IncompleteEntry == <<73, 110, 99, 111, 109, 112, 108, 101, 116, 101, 32, 69, 110, 116, 114, 121>>
\* 'Validation Required'
ValidationRequired == <<86, 97, 108, 105, 100, 97, 116, 105, 111, 110, 32, 82, 101, 113, 117, 105, 114, 101, 100>>
\* ', '
FlagSeparator == <<44, 32>>

Range(s) == {s[i] : i \in 1..Len(s)}

RECURSIVE strip_each(_)
strip_each(parts) ==
    IF parts = <<>> THEN <<>> ELSE <<str_strip(Head(parts))>> \o strip_each(Tail(parts))

\* [p.strip() for p in re.split(r"[;,]", line)]
split_line(line) == strip_each(re_split(line))

RECURSIVE stripped_all(_)
stripped_all(raw) ==
    IF raw = <<>> THEN <<>> ELSE <<str_strip(Head(raw))>> \o stripped_all(Tail(raw))

RECURSIVE stripped_non_blank(_)
stripped_non_blank(raw) ==
    IF raw = <<>> THEN <<>>
    ELSE IF str_strip(Head(raw)) # <<>>
         THEN <<str_strip(Head(raw))>> \o stripped_non_blank(Tail(raw))
         ELSE stripped_non_blank(Tail(raw))

read_lines_keep_blank(raw) == stripped_all(raw)

\* [line.strip() for line in f if line.strip()]
read_lines(raw) == stripped_non_blank(raw)

\* [normalize_text(p, col_name) for p, col_name in zip(parts, rows[0])]
RECURSIVE zip_normalize(_, _)
zip_normalize(parts, names) ==
    IF parts = <<>> \/ names = <<>> THEN <<>>
    ELSE <<normalize_text(Head(parts), Head(names))>>
         \o zip_normalize(Tail(parts), Tail(names))

\* the body of the parsing loop for one line
clean_parts(line, rows_so_far) ==
    IF Len(rows_so_far) = 0
    THEN split_line(line)
    ELSE zip_normalize(split_line(line), rows_so_far[1])

RECURSIVE max_len(_)
max_len(rs) ==
    IF rs = <<>> THEN 0
    ELSE LET m == max_len(Tail(rs))
         IN  IF Len(Head(rs)) > m THEN Len(Head(rs)) ELSE m

\* for i in range(len(header), max_cols_found): header.append(f"Additional_Field_{i + 1}")
extend_header(hdr, max_cols_found) ==
    IF Len(hdr) < max_cols_found
    THEN hdr \o [k \in 1..(max_cols_found - Len(hdr)) |->
                    AdditionalFieldPrefix \o str_int(Len(hdr) + k)]
    ELSE hdr

align_row_no_pad(r, n) == IF Len(r) < n THEN r ELSE SubSeq(r, 1, n)

\* r + [""] * (len(header) - len(r)) if len(r) < len(header) else r[:len(header)]
align_row(r, n) ==
    IF Len(r) < n THEN r \o [k \in 1..(n - Len(r)) |-> <<>>] ELSE SubSeq(r, 1, n)

RECURSIVE align_rows(_, _)
align_rows(rs, n) ==
    IF rs = <<>> THEN <<>> ELSE <<align_row(Head(rs), n)>> \o align_rows(Tail(rs), n)

RECURSIVE keep_first(_, _)
keep_first(rs, seen) ==
    IF rs = <<>> THEN <<>>
    ELSE IF Head(rs) \in seen THEN keep_first(Tail(rs), seen)
    ELSE <<Head(rs)>> \o keep_first(Tail(rs), seen \cup {Head(rs)})

RECURSIVE keep_last(_)
keep_last(rs) ==
    IF rs = <<>> THEN <<>>
    ELSE IF Head(rs) \in Range(Tail(rs)) THEN keep_last(Tail(rs))
    ELSE <<Head(rs)>> \o keep_last(Tail(rs))

drop_duplicates_keep_last(rs) == keep_last(rs)

\* df.drop_duplicates().reset_index(drop=True)
drop_duplicates(rs) == keep_first(rs, {})

\* the scan of audit_integrity, without the isdigit test
RECURSIVE validation_scan_no_digit_skip(_)
validation_scan_no_digit_skip(row) ==
    IF row = <<>> THEN <<>>
    ELSE IF 0 < Len(Head(row)) /\ Len(Head(row)) < 2 THEN <<ValidationRequired>>
    ELSE validation_scan_no_digit_skip(Tail(row))

\* for val in row.values: skip digit strings, flag the first one-character value, break
RECURSIVE validation_scan(_)
validation_scan(row) ==
    IF row = <<>> THEN <<>>
    ELSE IF str_isdigit(Head(row)) THEN validation_scan(Tail(row))
    ELSE IF 0 < Len(Head(row)) /\ Len(Head(row)) < 2 THEN <<ValidationRequired>>
    ELSE validation_scan(Tail(row))

audit_integrity_no_digit_skip(row) ==
    str_join(FlagSeparator,
             (IF <<>> \in Range(row) THEN <<IncompleteEntry>> ELSE <<>>)
             \o validation_scan_no_digit_skip(row))

audit_integrity(row) ==
    str_join(FlagSeparator,
             (IF <<>> \in Range(row) THEN <<IncompleteEntry>> ELSE <<>>)
             \o validation_scan(row))

\* df.columns holds no name twice
columns_unique(hdr) ==
    \A i, j \in 1..Len(hdr) : hdr[i] = hdr[j] => i = j

----------------------------------------------------------------------------
(* Inputs *)

SeqsUpTo(S, n) == UNION {[1..k -> S] : k \in 0..n}

\* 'Сотрудник,Город'
Line_Header == <<1057, 1086, 1090, 1088, 1091, 1076, 1085, 1080, 1082, 44, 1043, 1086, 1088, 1086, 1076>>
\* 'Заметка'
Line_Note == <<1047, 1072, 1084, 1077, 1090, 1082, 1072>>
\* ' иванов и. ;москва'
Line_Ivanov == <<32, 1080, 1074, 1072, 1085, 1086, 1074, 32, 1080, 46, 32, 59, 1084, 1086, 1089, 1082, 1074, 1072>>
\* 'Иванов  И.,МОСКВА'
Line_IvanovDup == <<1048, 1074, 1072, 1085, 1086, 1074, 32, 32, 1048, 46, 44, 1052, 1054, 1057, 1050, 1042, 1040>>
\* 'петров п. п.,омск,x'
Line_Petrov == <<1087, 1077, 1090, 1088, 1086, 1074, 32, 1087, 46, 32, 1087, 46, 44, 1086, 1084, 1089, 1082, 44, 120>>
\* '7;;a;'
Line_Seven == <<55, 59, 59, 97, 59>>
\* ' '
Line_Blank == <<32>>

\* the raw lines an input file is made of
LinePool ==
    {Line_Header, Line_Note, Line_Ivanov, Line_IvanovDup, Line_Petrov,
     Line_Seven, Line_Blank}

\* the contents RAW_FILE_DIR.glob("*.*") can list first: a file of raw lines
Files == SeqsUpTo(LinePool, MaxLines)

\* 'п', 'П', '.', ' ', '-', '1', sharp s, j with caron
NormAlphabet == {1087, 1055, 46, 32, 45, 49, SharpS, JCaron}

\* 'Сотрудник'
Col_Sotrudnik == <<1057, 1086, 1090, 1088, 1091, 1076, 1085, 1080, 1082>>
\* 'СОТРУДНИК'
Col_SOTRUDNIK == <<1057, 1054, 1058, 1056, 1059, 1044, 1053, 1048, 1050>>
\* 'Город сотрудника'
Col_GorodSotrudnika == <<1043, 1086, 1088, 1086, 1076, 32, 1089, 1086, 1090, 1088, 1091, 1076, 1085, 1080, 1082, 1072>>
\* 'Город'
Col_Gorod == <<1043, 1086, 1088, 1086, 1076>>
\* 'МЕСТО работы'
Col_MESTO == <<1052, 1045, 1057, 1058, 1054, 32, 1088, 1072, 1073, 1086, 1090, 1099>>
\* 'Заметка'
Col_Zametka == <<1047, 1072, 1084, 1077, 1090, 1082, 1072>>
\* 'Сотрудни к'
Col_Sotrudni == <<1057, 1086, 1090, 1088, 1091, 1076, 1085, 1080, 32, 1082>>
\* ''
Col_Empty == <<>>

\* one column name per normalization mode
ModeColumns == {Col_Sotrudnik, Col_Gorod, Col_Zametka}

DispatchColumns ==
    {Col_Sotrudnik, Col_SOTRUDNIK, Col_GorodSotrudnika, Col_Gorod, Col_MESTO,
     Col_Zametka, Col_Sotrudni, Col_Empty}

----------------------------------------------------------------------------
(* State *)

VARIABLES
    pc,               \* position in run_data_processing
    input_files,      \* list(RAW_FILE_DIR.glob("*.*")): <<>> or the first file
    target_file,      \* raw lines of input_files[0]
    lines,            \* stripped non-blank lines
    rows,             \* parsed rows, rows[1] is the header
    header,
    normalized_data,
    df,               \* rows of the data frame
    Audit_Flag,       \* the Audit_Flag column of the data frame
    events,           \* log lines and file-system effects, in order
    exc,              \* the exception on its way to the except clause
    value,            \* argument of normalize_text
    column_name,      \* argument of normalize_text
    result,           \* normalize_text(value, column_name)
    result2,          \* normalize_text(result, column_name)
    npc               \* position of the normalizer harness

vars == <<pc, input_files, target_file, lines, rows, header, normalized_data,
          df, Audit_Flag, events, exc, value, column_name, result, result2, npc>>

runVars == <<pc, input_files, target_file, lines, rows, header,
             normalized_data, df, Audit_Flag, events, exc>>

normVars == <<value, column_name, result, result2, npc>>

MsgStarted == "--- DATA PROCESSING STARTED ---"
MsgAcquired == "Target file acquired"
MsgExtending == "Detected columns. Extending header."
MsgDuplicates == "Duplicates removed"
MsgCompleted == "--- PROCESSING COMPLETED SUCCESSFULLY ---"
MsgTraceback == "Traceback"

\* write_log(message): one more line in the log file
LogLine(msg, n) == [kind |-> "log", msg |-> msg, n |-> n]
Effect(kind) == [kind |-> kind, msg |-> "", n |-> 0]

write_log(msg, n) == Append(events, LogLine(msg, n))

Platforms == {"Windows", "Darwin", "Linux"}

RunIdle ==
    /\ pc = "idle" /\ input_files = <<>> /\ target_file = <<>> /\ lines = <<>>
    /\ rows = <<>> /\ header = <<>> /\ normalized_data = <<>> /\ df = <<>>
    /\ Audit_Flag = <<>> /\ events = <<>> /\ exc = "none"

NormIdle ==
    /\ value = <<>> /\ column_name = <<>> /\ result = <<>> /\ result2 = <<>>
    /\ npc = "idle"

Init ==
    /\ pc = "start"
    /\ input_files \in {<<>>} \cup {<<f>> : f \in Files}
    /\ target_file = <<>> /\ lines = <<>> /\ rows = <<>> /\ header = <<>>
    /\ normalized_data = <<>> /\ df = <<>> /\ Audit_Flag = <<>>
    /\ events = <<>> /\ exc = "none"
    /\ NormIdle

----------------------------------------------------------------------------
(* run_data_processing *)

Raise(e) ==
    /\ exc' = e
    /\ pc' = "except"

\* write_log("--- DATA PROCESSING STARTED ---")
Start ==
    /\ pc = "start"
    /\ events' = write_log(MsgStarted, 0)
    /\ pc' = "glob"
    /\ UNCHANGED <<input_files, target_file, lines, rows, header,
                   normalized_data, df, Audit_Flag, exc>>
    /\ UNCHANGED normVars

\* input_files = list(RAW_FILE_DIR.glob("*.*")); target_file = input_files[0]
Glob ==
    /\ pc = "glob"
    /\ IF input_files = <<>>
       THEN /\ Raise("FileNotFoundError")
            /\ UNCHANGED <<target_file, events>>
       ELSE /\ target_file' = input_files[1]
            /\ events' = write_log(MsgAcquired, 0)
            /\ pc' = "read"
            /\ UNCHANGED exc
    /\ UNCHANGED <<input_files, lines, rows, header, normalized_data, df, Audit_Flag>>
    /\ UNCHANGED normVars

\* open(target_file), the list of stripped non-blank lines, the empty check;
\* open or decoding may fail
ReadFile ==
    /\ pc = "read"
    /\ \E readable \in BOOLEAN :
         IF ~readable
         THEN /\ Raise("OSError")
              /\ UNCHANGED lines
         ELSE /\ lines' = read_lines(target_file)
              /\ IF read_lines(target_file) = <<>>
                 THEN Raise("ValueError")
                 ELSE pc' = "parse" /\ UNCHANGED exc
    /\ UNCHANGED <<input_files, target_file, rows, header, normalized_data,
                   df, Audit_Flag, events>>
    /\ UNCHANGED normVars

\* one iteration of "for line in lines"
ParseLine ==
    /\ pc = "parse"
    /\ Len(rows) < Len(lines)
    /\ rows' = Append(rows, clean_parts(lines[Len(rows) + 1], rows))
    /\ pc' = IF Len(rows) + 1 = Len(lines) THEN "align" ELSE "parse"
    /\ UNCHANGED <<input_files, target_file, lines, header, normalized_data,
                   df, Audit_Flag, events, exc>>
    /\ UNCHANGED normVars

\* structural alignment and the construction of the data frame
Align ==
    /\ pc = "align"
    /\ LET max_cols_found == max_len(rows)
           hdr == extend_header(rows[1], max_cols_found)
       IN  /\ header' = hdr
           /\ rows' = [rows EXCEPT ![1] = hdr]
           /\ events' = IF Len(rows[1]) < max_cols_found
                        THEN write_log(MsgExtending, max_cols_found)
                        ELSE events
           /\ normalized_data' = align_rows(Tail(rows), Len(hdr))
    /\ pc' = "dedup"
    /\ UNCHANGED <<input_files, target_file, lines, df, Audit_Flag, exc>>
    /\ UNCHANGED normVars

\* deduplication and its log line
Dedup ==
    /\ pc = "dedup"
    /\ df' = drop_duplicates(normalized_data)
    /\ events' = write_log(MsgDuplicates,
                           Len(normalized_data) - Len(drop_duplicates(normalized_data)))
    /\ pc' = "audit"
    /\ UNCHANGED <<input_files, target_file, lines, rows, header,
                   normalized_data, Audit_Flag, exc>>
    /\ UNCHANGED normVars

\* df["Audit_Flag"] = df.apply(audit_integrity, axis=1)
Audit ==
    /\ pc = "audit"
    /\ Audit_Flag' = [i \in 1..Len(df) |-> audit_integrity(df[i])]
    /\ pc' = "to_csv"
    /\ UNCHANGED <<input_files, target_file, lines, rows, header,
                   normalized_data, df, events, exc>>
    /\ UNCHANGED normVars

\* df.to_csv(OUTPUT_CSV, ...); the write may fail
ToCsv ==
    /\ pc = "to_csv"
    /\ \E written \in BOOLEAN :
         IF written
         THEN /\ events' = Append(events, Effect("csv"))
              /\ pc' = "to_excel"
              /\ UNCHANGED exc
         ELSE /\ Raise("OSError")
              /\ UNCHANGED events
    /\ UNCHANGED <<input_files, target_file, lines, rows, header,
                   normalized_data, df, Audit_Flag>>
    /\ UNCHANGED normVars

\* the ExcelWriter block: the sheet is written, then the column widths are
\* set; max(...) over a column name that occurs twice raises after the sheet
\* was handed to the writer, which saves it on leaving the block
ToExcel ==
    /\ pc = "to_excel"
    /\ \E written \in BOOLEAN :
         IF ~written
         THEN /\ Raise("OSError")
              /\ UNCHANGED events
         ELSE /\ events' = Append(events, Effect("xlsx"))
              /\ IF columns_unique(header)
                 THEN pc' = "completed" /\ UNCHANGED exc
                 ELSE Raise("ValueError")
    /\ UNCHANGED <<input_files, target_file, lines, rows, header,
                   normalized_data, df, Audit_Flag>>
    /\ UNCHANGED normVars

\* write_log("--- PROCESSING COMPLETED SUCCESSFULLY ---") and the print
Completed ==
    /\ pc = "completed"
    /\ events' = write_log(MsgCompleted, 0)
    /\ pc' = "open_file"
    /\ UNCHANGED <<input_files, target_file, lines, rows, header,
                   normalized_data, df, Audit_Flag, exc>>
    /\ UNCHANGED normVars

\* open_file(OUTPUT_EXCEL): os.startfile raises when Windows cannot open the
\* file; os.system returns the exit status of open / xdg-open
OpenFile ==
    /\ pc = "open_file"
    /\ \E system \in Platforms, launched \in BOOLEAN :
         IF system = "Windows" /\ ~launched
         THEN /\ Raise("OSError")
              /\ UNCHANGED events
         ELSE /\ events' = Append(events, Effect("open"))
              /\ pc' = "done"
              /\ UNCHANGED exc
    /\ UNCHANGED <<input_files, target_file, lines, rows, header,
                   normalized_data, df, Audit_Flag>>
    /\ UNCHANGED normVars

\* except Exception: write_log(traceback.format_exc()); print(...)
Except ==
    /\ pc = "except"
    /\ events' = write_log(MsgTraceback, 0)
    /\ pc' = "done"
    /\ UNCHANGED <<input_files, target_file, lines, rows, header,
                   normalized_data, df, Audit_Flag, exc>>
    /\ UNCHANGED normVars

Next ==
    \/ Start \/ Glob \/ ReadFile \/ ParseLine \/ Align \/ Dedup \/ Audit
    \/ ToCsv \/ ToExcel \/ Completed \/ OpenFile \/ Except

Spec == Init /\ [][Next]_vars

----------------------------------------------------------------------------
(* normalize_text applied once and twice *)

NormInit ==
    /\ RunIdle
    /\ value \in SeqsUpTo(NormAlphabet, MaxLen)
    /\ column_name \in ModeColumns
    /\ result = <<>> /\ result2 = <<>>
    /\ npc = "start"

DispatchInit ==
    /\ RunIdle
    /\ value \in SeqsUpTo(NormAlphabet, MaxDispatchLen)
    /\ column_name \in DispatchColumns
    /\ result = <<>> /\ result2 = <<>>
    /\ npc = "start"

Normalize ==
    /\ npc = "start"
    /\ result' = normalize_text(value, column_name)
    /\ npc' = "once"
    /\ UNCHANGED <<value, column_name, result2>>
    /\ UNCHANGED runVars

Renormalize ==
    /\ npc = "once"
    /\ result2' = normalize_text(result, column_name)
    /\ npc' = "twice"
    /\ UNCHANGED <<value, column_name, result>>
    /\ UNCHANGED runVars

NormNext == Normalize \/ Renormalize

NormSpec == NormInit /\ [][NormNext]_vars

DispatchSpec == DispatchInit /\ [][NormNext]_vars

----------------------------------------------------------------------------
(* Properties *)

\* the alignment step has run
Aligned == lines # <<>> /\ pc \notin {"parse", "align"}
\* the deduplication step has run
Deduped == Aligned /\ pc # "dedup"
\* the audit step has run: pc is past "audit" and the step was not skipped
Audited == Deduped /\ pc \in {"to_csv", "to_excel", "completed", "open_file"}

\* number of fields an input line splits into
FieldCount(line) == Len(re_split(line))

MaxFieldCount == max_len([i \in 1..Len(lines) |-> re_split(lines[i])])

\* the header line's fields, as read
InputHeader == split_line(lines[1])

SomeLineWiderThanHeader ==
    \E i \in 2..Len(lines) : FieldCount(lines[i]) > FieldCount(lines[1])

HasLog(msg) == \E i \in 1..Len(events) : events[i].kind = "log" /\ events[i].msg = msg
HasEffect(kind) == \E i \in 1..Len(events) : events[i].kind = kind
IndexOf(e) == CHOOSE i \in 1..Len(events) : events[i] = e

\* C1: when some data line has more fields than the header line, the header
\* after alignment is as long as the widest input line, keeps the original
\* names in place and names each appended position p "Additional_Field_p",
\* the appended names being distinct.
C1_HeaderExtension ==
    (Aligned /\ SomeLineWiderThanHeader) =>
        /\ Len(header) = MaxFieldCount
        /\ \A p \in 1..Len(InputHeader) : header[p] = InputHeader[p]
        /\ \A p \in (Len(InputHeader) + 1)..Len(header) :
               header[p] = AdditionalFieldPrefix \o str_int(p)
        /\ \A p, q \in (Len(InputHeader) + 1)..Len(header) :
               header[p] = header[q] => p = q

\* C2: after alignment every data row, and every row of the deduplicated
\* table, has exactly len(header) fields; a line with fewer fields than the
\* header keeps its (normalized) fields in order and is right-padded with
\* empty strings, a line with more fields keeps only its first len(header)
\* fields.
C2_RowAlignment ==
    Aligned =>
        /\ Len(normalized_data) = Len(lines) - 1
        /\ \A i \in 1..Len(normalized_data) :
             LET parts == split_line(lines[i + 1])
             IN  /\ Len(normalized_data[i]) = Len(header)
                 /\ \A p \in 1..Len(header) :
                      normalized_data[i][p] =
                          IF p <= Len(parts)
                          THEN normalize_text(parts[p], header[p])
                          ELSE <<>>
        /\ \A i \in 1..Len(df) : Len(df[i]) = Len(header)

\* C2 witness: one line was shorter than the header and one was longer
C2_Witness ==
    /\ Aligned
    /\ \E i \in 2..Len(lines) : FieldCount(lines[i]) < Len(header)
    /\ \E i \in 2..Len(lines) : FieldCount(lines[i]) > Len(header)

FirstIndex(rs, r) == CHOOSE i \in 1..Len(rs) : rs[i] = r /\ \A j \in 1..(i - 1) : rs[j] # r

\* C3: the deduplicated table holds no row twice, holds every distinct
\* aligned row, and lists them in the order of their first occurrences; the
\* Audit_Flag column does not exist yet when rows are compared; the logged
\* count is the number of rows removed.
C3_DedupCorrect ==
    Deduped =>
        /\ \A i, j \in 1..Len(df) : df[i] = df[j] => i = j
        /\ Range(df) = Range(normalized_data)
        /\ \A i, j \in 1..Len(df) :
             i < j => FirstIndex(normalized_data, df[i]) < FirstIndex(normalized_data, df[j])
        /\ pc = "audit" => Audit_Flag = <<>>
        /\ \E k \in 1..Len(events) :
             events[k] = LogLine(MsgDuplicates, Len(normalized_data) - Len(df))

\* C3 witness: a duplicate was removed from behind a different row
C3_Witness ==
    /\ Deduped
    /\ Len(normalized_data) = 3
    /\ normalized_data[1] = normalized_data[3]
    /\ normalized_data[1] # normalized_data[2]
    /\ Len(df) = 2

HasEmptyField(row) == \E p \in 1..Len(row) : row[p] = <<>>

HasSingleNonDigit(row) ==
    \E p \in 1..Len(row) : Len(row[p]) = 1 /\ ~IsDigit(row[p][1])

\* C4: every output row has an Audit_Flag, which is "Incomplete Entry" iff
\* some field is empty, "Validation Required" iff some field is one
\* non-digit character, the two joined by ", " in this order when both
\* apply, and "" when neither does.
C4_AuditFlag ==
    Audited =>
        /\ Len(Audit_Flag) = Len(df)
        /\ \A i \in 1..Len(df) :
             Audit_Flag[i] =
                 IF HasEmptyField(df[i]) /\ HasSingleNonDigit(df[i])
                 THEN IncompleteEntry \o FlagSeparator \o ValidationRequired
                 ELSE IF HasEmptyField(df[i]) THEN IncompleteEntry
                 ELSE IF HasSingleNonDigit(df[i]) THEN ValidationRequired
                 ELSE <<>>

\* C4 witness: a row that gets both flags although one of its fields is a
\* single digit
C4_Witness ==
    /\ Audited
    /\ \E i \in 1..Len(df) :
         /\ Audit_Flag[i] = IncompleteEntry \o FlagSeparator \o ValidationRequired
         /\ \E p \in 1..Len(df[i]) : Len(df[i][p]) = 1 /\ IsDigit(df[i][p][1])

\* no character of the value has a case mapping longer than one character
NoExpandingChar(v) == \A i \in 1..Len(v) : ~Expands(v[i])

AllBlank(file) ==
    \A i \in 1..Len(file) : \A k \in 1..Len(file[i]) : IsSpace(file[i][k])

InputErrorCase == input_files = <<>> \/ AllBlank(input_files[1])

\* C6: when the directory lists no file, or the selected file has no
\* non-blank line, the run writes neither the CSV nor the spreadsheet and
\* never calls open_file; it ends after appending a traceback to the log.
C6_InputErrorExportsNothing ==
    InputErrorCase =>
        /\ ~HasEffect("csv") /\ ~HasEffect("xlsx") /\ ~HasEffect("open")
        /\ ~HasLog(MsgCompleted)
        /\ pc \in {"start", "glob", "read", "except", "done"}
        /\ pc = "except" => exc \in {"FileNotFoundError", "ValueError", "OSError"}
        /\ pc = "done" => events[Len(events)] = LogLine(MsgTraceback, 0)

\* C6 witness: a file of blank lines only was read and the run has ended
C6_Witness ==
    /\ pc = "done"
    /\ input_files # <<>>
    /\ target_file # <<>>
    /\ AllBlank(target_file)
    /\ exc = "ValueError"

PersonColumns == {Col_Sotrudnik, Col_SOTRUDNIK, Col_GorodSotrudnika}
LocationColumns == {Col_Gorod, Col_MESTO}

\* C7: an empty value is returned unchanged; otherwise a column naming
\* "сотрудник" in any case gets person-name mode even if it also names
\* "город", a column naming "город" or "место" gets location mode, and any
\* other column gets sentence mode.
C7_DispatchOrder ==
    npc # "start" =>
        result = IF value = <<>> THEN <<>>
                 ELSE IF column_name \in PersonColumns THEN normalize_fio(value)
                 ELSE IF column_name \in LocationColumns THEN normalize_location(value)
                 ELSE normalize_sentence(value)

\* C7 witness: a column naming both a person and a city, on a value the two
\* modes treat differently
C7_Witness ==
    /\ npc = "once"
    /\ column_name = Col_GorodSotrudnika
    /\ normalize_fio(value) # normalize_location(value)
    /\ result = normalize_fio(value)

\* C8: a data line with more fields than the header keeps all of them when
\* parsed, and after alignment the cell under each appended column holds the
\* line's trimmed field at that position.
C8_ExtraFieldsSurvive ==
    Aligned =>
        \A i \in 2..Len(lines) :
            LET parts == split_line(lines[i])
            IN  Len(parts) > Len(InputHeader) =>
                  /\ Len(header) >= Len(parts)
                  /\ \A p \in 1..Len(parts) :
                       normalized_data[i - 1][p] =
                           IF p <= Len(InputHeader)
                           THEN normalize_text(parts[p], InputHeader[p])
                           ELSE parts[p]

IsUpperChar(c) == IsCased(c) /\ Lower(c) # <<c>>

LocationCase == npc # "start" /\ column_name = Col_Gorod /\ value # <<>>

C10_OutcomeExclusive ==
    /\ events # <<>> => events[1] = LogLine(MsgStarted, 0)
    /\ pc = "done" => (HasLog(MsgCompleted) # HasLog(MsgTraceback))
    /\ ~(HasLog(MsgCompleted) /\ HasLog(MsgTraceback))
    /\ HasLog(MsgCompleted) =>
         /\ HasEffect("csv") /\ HasEffect("xlsx")
         /\ IndexOf(Effect("csv")) < IndexOf(Effect("xlsx"))
         /\ IndexOf(Effect("xlsx")) < IndexOf(LogLine(MsgCompleted, 0))
    /\ HasEffect("open") =>
         /\ HasLog(MsgCompleted) /\ ~HasLog(MsgTraceback)
         /\ IndexOf(LogLine(MsgCompleted, 0)) < IndexOf(Effect("open"))

====
